---------------------------- MODULE Spec2Model ----------------------------
(***************************************************************************)
(* Model of the gutter estimate service (src/app/main.py): the token       *)
(* cache and get_token, the three provider-facing endpoints, and the       *)
(* extraction and pricing code of get_results.                             *)
(*                                                                         *)
(* Numbers.  The code computes with Python floats.  The model computes     *)
(* with exact rationals [n, d] in lowest terms, and round(x, k) is         *)
(* round-half-to-even on the exact value.  Python rounds the binary float, *)
(* so an amount whose exact decimal value ends in ...5 at the rounded      *)
(* digit may round the other way there; everywhere else the two agree.     *)
(* Eave lengths are carried in tenths of a foot, rounded money in cents.   *)
(***************************************************************************)
EXTENDS Integers, Sequences, FiniteSets

VARIABLES
    token_cache,   \* _token_cache["access_token"]
    creds_set,     \* EV_CLIENT_ID and EV_CLIENT_SECRET are both set
    pc,            \* per request: where the handler coroutine is suspended
    endpoint,      \* per request: which handler runs
    token,         \* per request: the handler's local `token`
    resp,          \* per request: the handler's local `r`, the last provider response
                   \* (status_code, text, json())
    pricing,       \* per request: the handler's local `pricing` dict
    calc,          \* per request: the estimator's unrounded subtotal, pre_profit, total
    out            \* per request: what the endpoint answers

vars == <<token_cache, creds_set, pc, endpoint, token, resp, pricing, calc, out>>

-----------------------------------------------------------------------------
(* Bounds of the model *)

NReq == 2
MaxEave == 12
MaxCount == 1
MaxStories == 3

Requests == 1..NReq

-----------------------------------------------------------------------------
(* Exact rational arithmetic, standing for the float arithmetic of the code *)

RECURSIVE GCD(_, _)
GCD(a, b) == IF b = 0 THEN a ELSE GCD(b, a % b)

Abs(x) == IF x < 0 THEN -x ELSE x

Rat(n, d) ==
    LET g == GCD(Abs(n), d)
    IN  IF n = 0 THEN [n |-> 0, d |-> 1] ELSE [n |-> n \div g, d |-> d \div g]

Zero == Rat(0, 1)
FromInt(i) == Rat(i, 1)
Cents(c) == Rat(c, 100)
Tenths(t) == Rat(t, 10)

(* x and y are in lowest terms; cancelling crosswise keeps the product so *)
RMul(x, y) ==
    LET g1 == GCD(Abs(x.n), y.d)
        g2 == GCD(Abs(y.n), x.d)
    IN  IF x.n = 0 \/ y.n = 0 THEN Zero
        ELSE [n |-> (x.n \div g1) * (y.n \div g2), d |-> (x.d \div g2) * (y.d \div g1)]

RAdd(x, y) ==
    IF x.n = 0 THEN y
    ELSE IF y.n = 0 THEN x
    ELSE LET g == GCD(x.d, y.d)
         IN  Rat(x.n * (y.d \div g) + y.n * (x.d \div g), (x.d \div g) * y.d)

RNeg(x) == [n |-> -x.n, d |-> x.d]
RSub(x, y) == RAdd(x, RNeg(y))
RLe(x, y) == RSub(x, y).n <= 0

(* round(x, k) for x >= 0, as the integer number of 10^-k units: half to   *)
(* even, Python's rule.  scale is 10^k.                                    *)
RoundScaled(x, scale) ==
    LET whole == x.n \div x.d
        rest  == x.n % x.d
        units == (rest * scale) \div x.d
        left  == (rest * scale) % x.d
        low   == whole * scale + units
    IN  IF 2 * left > x.d THEN low + 1
        ELSE IF 2 * left < x.d THEN low
        ELSE IF low % 2 = 0 THEN low ELSE low + 1

Round2(x) == RoundScaled(x, 100)
Round1(x) == RoundScaled(x, 10)

-----------------------------------------------------------------------------
(* JSON values and the Python operations the extraction uses.  A dict is   *)
(* a record over the keys of the documented shape; a key the payload does  *)
(* not carry holds Absent, a key it carries as null holds Null (None).     *)

Absent == [t |-> "absent"]
Null == [t |-> "null"]
Num(v) == [t |-> "num", v |-> v]
Str(s) == [t |-> "str", v |-> s]
Obj(f) == [t |-> "obj", f |-> f]

EmptyData == Obj([gutterReport |-> Absent])
EmptyGutter ==
    Obj([totalEaveLengthFt |-> Absent, estimatedDownspouts |-> Absent,
         miterCount |-> Absent, storiesByDirection |-> Absent, assets |-> Absent])
EmptyMiters == Obj([inside90 |-> Absent, outside90 |-> Absent])
EmptyStories == Obj([N |-> Absent, S |-> Absent])
EmptyAssets == Obj([pdfUrl |-> Absent])

(* The value a failed evaluation leaves: calling .get on None raises. *)
Raised == [t |-> "raised"]

(* Python truthiness: None, 0, 0.0, "" and {} are falsy. *)
Falsy(x) ==
    \/ x.t = "null"
    \/ x.t = "num" /\ x.v = 0
    \/ x.t = "str" /\ x.v = ""
    \/ x.t = "obj" /\ \A k \in DOMAIN x.f : x.f[k].t = "absent"

(* x or y *)
PyOr(x, y) == IF x.t = "raised" THEN Raised ELSE IF Falsy(x) THEN y ELSE x

(* o.get(k, dflt); o.get(k) is Get(o, k, Null) *)
Get(o, k, dflt) ==
    IF o.t # "obj" THEN Raised
    ELSE IF o.f[k].t = "absent" THEN dflt ELSE o.f[k]

(* the values() of a dict *)
Values(o) == {o.f[k] : k \in {j \in DOMAIN o.f : o.f[j].t # "absent"}}

-----------------------------------------------------------------------------
(* Extraction: get_results, lines 105-113 *)

GutterWithoutOr(d) == Get(d, "gutterReport", EmptyGutter)

Gutter(d) == PyOr(Get(d, "gutterReport", EmptyGutter), EmptyGutter)

MiterCount(gutter) == PyOr(Get(gutter, "miterCount", Null), EmptyMiters)

Assets(gutter) == PyOr(Get(gutter, "assets", Null), EmptyAssets)

Totals(gutter) ==
    [eave_linear_ft       |-> PyOr(Get(gutter, "totalEaveLengthFt", Null), Num(0)),
     downspouts           |-> PyOr(Get(gutter, "estimatedDownspouts", Null), Num(0)),
     miters_inside        |-> PyOr(Get(MiterCount(gutter), "inside90", Null), Num(0)),
     miters_outside       |-> PyOr(Get(MiterCount(gutter), "outside90", Null), Num(0)),
     stories_by_direction |-> PyOr(Get(gutter, "storiesByDirection", Null), EmptyStories),
     pdf_url              |-> Get(Assets(gutter), "pdfUrl", Null)]

ExtractionRaises(d) ==
    LET t == Totals(Gutter(d))
    IN  \E k \in DOMAIN t : t[k].t = "raised"

-----------------------------------------------------------------------------
(* Pricing: get_results, lines 116-144 *)

DefaultPricing ==
    [price_per_ft     |-> Cents(850),
     labor_per_ft     |-> Cents(500),
     downspout_each   |-> Cents(8500),
     miter_each       |-> Cents(1200),
     pitch_multiplier |-> Cents(110),
     story_multiplier |-> Cents(100),
     overhead_pct     |-> Cents(12),
     profit_pct       |-> Cents(10),
     sales_tax_pct    |-> Cents(0)]

(* (v or 1) >= 2 *)
TwoPlus(v) == PyOr(v, Num(1)).v >= 2

AllTwoPlus(stories) == \A v \in Values(stories) : TwoPlus(v)

(* any(((v or 1) >= 2) for v in totals["stories_by_direction"].values()) *)
AnyTwoPlus(stories) == \E v \in Values(stories) : TwoPlus(v)

(* lines 129-130: the bump of the local dict *)
Bumped(p, totals) ==
    IF AnyTwoPlus(totals.stories_by_direction)
    THEN [p EXCEPT !.story_multiplier = Cents(110)]
    ELSE p

BaseMat(eave_ft, p) == RMul(eave_ft, p.price_per_ft)

BaseLab(eave_ft, p) ==
    RMul(RMul(RMul(eave_ft, p.labor_per_ft), p.pitch_multiplier), p.story_multiplier)

Accessories(ds, miters, p) ==
    RAdd(RMul(FromInt(ds), p.downspout_each), RMul(FromInt(miters), p.miter_each))

ProfitOnSubtotal(subtotal, pre_profit, p) == RMul(subtotal, p.profit_pct)

Profit(subtotal, pre_profit, p) == RMul(pre_profit, p.profit_pct)

SalesTaxOnSubtotal(base_mat, base_lab, accessories, p) ==
    RMul(RAdd(RAdd(base_mat, base_lab), accessories), p.sales_tax_pct)

SalesTax(base_mat, base_lab, accessories, p) ==
    RMul(RAdd(base_mat, accessories), p.sales_tax_pct)

TotalWithoutTax(pre_profit, profit, sales_tax) == RAdd(pre_profit, profit)

TotalLessProfit(pre_profit, profit, sales_tax) ==
    RAdd(RSub(pre_profit, profit), sales_tax)

Total(pre_profit, profit, sales_tax) == RAdd(RAdd(pre_profit, profit), sales_tax)

(* lines 132-144: the locals of the estimator, p being the dict after the bump *)
Locals(totals, p) ==
    LET eave_ft     == Tenths(totals.eave_linear_ft.v)
        ds          == totals.downspouts.v
        miters      == totals.miters_inside.v + totals.miters_outside.v
        base_mat    == BaseMat(eave_ft, p)
        base_lab    == BaseLab(eave_ft, p)
        accessories == Accessories(ds, miters, p)
        subtotal    == RAdd(RAdd(base_mat, base_lab), accessories)
        overhead    == RMul(subtotal, p.overhead_pct)
        pre_profit  == RAdd(subtotal, overhead)
        profit      == Profit(subtotal, pre_profit, p)
        sales_tax   == SalesTax(base_mat, base_lab, accessories, p)
        total       == Total(pre_profit, profit, sales_tax)
    IN  [eave_ft |-> eave_ft, ds |-> ds, miters |-> miters,
         base_mat |-> base_mat, base_lab |-> base_lab, accessories |-> accessories,
         subtotal |-> subtotal, overhead |-> overhead, pre_profit |-> pre_profit,
         profit |-> profit, sales_tax |-> sales_tax, total |-> total]

(* the part of the locals the frame is recorded with *)
Kept(c) == [subtotal |-> c.subtotal, pre_profit |-> c.pre_profit, total |-> c.total]

NoLocals == [subtotal |-> Zero, pre_profit |-> Zero, total |-> Zero]

-----------------------------------------------------------------------------
(* The answer of get_results: lines 146-158.  Amounts are cents, qty of    *)
(* the per-foot lines is tenths of a foot.                                 *)

LineItems(c, p) ==
    << [label |-> <<"Gutter materials">>, qty |-> Round1(c.eave_ft), uom |-> "ft",
        unit_price |-> p.price_per_ft, amount |-> Round2(c.base_mat)],
       [label |-> <<"Labor">>, qty |-> Round1(c.eave_ft), uom |-> "ft",
        unit_price |-> p.labor_per_ft, amount |-> Round2(c.base_lab)],
       [label |-> <<"Downspouts (", c.ds, ")">>, qty |-> c.ds, uom |-> "ea",
        unit_price |-> p.downspout_each,
        amount |-> Round2(RMul(FromInt(c.ds), p.downspout_each))],
       [label |-> <<"Miters (", c.miters, ")">>, qty |-> c.miters, uom |-> "ea",
        unit_price |-> p.miter_each,
        amount |-> Round2(RMul(FromInt(c.miters), p.miter_each))],
       [label |-> <<"Overhead">>, amount |-> Round2(c.overhead)],
       [label |-> <<"Profit">>, amount |-> Round2(c.profit)],
       [label |-> <<"Sales tax">>, amount |-> Round2(c.sales_tax)] >>

EstimateSkippingZeroLines(totals, c, p) ==
    [inputs     |-> totals,
     line_items |-> SelectSeq(LineItems(c, p), LAMBDA l : l.amount # 0),
     totals     |-> [subtotal |-> Round2(c.subtotal), total |-> Round2(c.total)]]

Estimate(totals, c, p) ==
    [inputs     |-> totals,
     line_items |-> LineItems(c, p),
     totals     |-> [subtotal |-> Round2(c.subtotal), total |-> Round2(c.total)]]

-----------------------------------------------------------------------------
(* The provider (EagleView) and what an endpoint answers *)

ErrorBodies == {"body_a"}
ErrorStatuses == {404, 500}

ErrorResponses ==
    {[status |-> st, text |-> b, json |-> Null] : st \in ErrorStatuses, b \in ErrorBodies}

OkResponse(j) == [status |-> 200, text |-> "", json |-> j]

(* a 2xx token response; its JSON may lack access_token *)
AuthOk ==
    {OkResponse(Obj([access_token |-> t])) : t \in {Str("tok_a"), Str("tok_b"), Absent}}

OrderJson == Obj([orderId |-> Str("order_1")])

NoResponse == [status |-> 0, text |-> "", json |-> Null]

Payload(eave, ds, inside, outside, stories, assets) ==
    Obj([gutterReport |->
           Obj([totalEaveLengthFt |-> eave, estimatedDownspouts |-> ds,
                miterCount |-> Obj([inside90 |-> inside, outside90 |-> outside]),
                storiesByDirection |-> stories, assets |-> assets])])

(* the payload of the documented scenario: 100 ft, 4 downspouts, 2 + 1     *)
(* miters, stories N: 1 and S: 2                                           *)
ScenarioPayload ==
    Payload(Num(1000), Num(4), Num(2), Num(1), Obj([N |-> Num(1), S |-> Num(2)]), Absent)

OneStoryPayload ==
    Payload(Num(1000), Num(4), Num(2), Num(1), Obj([N |-> Num(1), S |-> Num(1)]), Absent)

ProviderPayloads ==
    {EmptyData, ScenarioPayload, OneStoryPayload}

NoAnswer == [kind |-> "none"]
HTTPException(status, detail) == [kind |-> "error", status |-> status, detail |-> detail]
Answer(body) == [kind |-> "ok", status |-> 200, body |-> body]

-----------------------------------------------------------------------------
(* get_token, lines 32-46 *)

CacheNeverHit(cache) == FALSE

(* line 33: if _token_cache["access_token"] *)
CacheHit(cache) == ~Falsy(cache)

(* the handler up to its first suspension: get_token's cache check, then   *)
(* either the auth request or, with a cached token, the provider request   *)
Start(r, e) ==
    /\ pc[r] = "idle"
    /\ endpoint' = [endpoint EXCEPT ![r] = e]
    /\ IF CacheHit(token_cache)
       THEN /\ token' = [token EXCEPT ![r] = token_cache]
            /\ pc' = [pc EXCEPT ![r] = "await_api"]
            /\ out' = out
       ELSE IF ~creds_set
       THEN /\ out' = [out EXCEPT ![r] =
                         HTTPException(500, <<"EagleView credentials not set">>)]
            /\ pc' = [pc EXCEPT ![r] = "done"]
            /\ token' = token
       ELSE /\ pc' = [pc EXCEPT ![r] = "await_auth"]
            /\ UNCHANGED <<token, out>>
    /\ UNCHANGED <<token_cache, creds_set, resp, pricing, calc>>

(* line 44: f"Auth failed: {r.text}" *)
AuthDetail(rs) == <<"Auth failed: ", rs.text>>

(* lines 43-46, then the caller sends its provider request *)
AuthResponse(r, rs) ==
    /\ pc[r] = "await_auth"
    /\ resp' = [resp EXCEPT ![r] = rs]
    /\ IF rs.status >= 400
       THEN /\ out' = [out EXCEPT ![r] = HTTPException(rs.status, AuthDetail(rs))]
            /\ pc' = [pc EXCEPT ![r] = "done"]
            /\ UNCHANGED <<token_cache, token>>
       ELSE /\ token_cache' = Get(rs.json, "access_token", Null)
            /\ token' = [token EXCEPT ![r] = token_cache']
            /\ pc' = [pc EXCEPT ![r] = "await_api"]
            /\ out' = out
    /\ UNCHANGED <<creds_set, endpoint, pricing, calc>>

-----------------------------------------------------------------------------
(* create_order (lines 59-79) and get_order (lines 83-90) *)

PassThrough(r, rs) ==
    /\ pc[r] = "await_api"
    /\ resp' = [resp EXCEPT ![r] = rs]
    /\ out' = [out EXCEPT ![r] =
                 IF rs.status >= 400
                 THEN HTTPException(rs.status, <<rs.text>>)
                 ELSE Answer(rs.json)]
    /\ pc' = [pc EXCEPT ![r] = "done"]
    /\ UNCHANGED <<token_cache, creds_set, endpoint, token, pricing, calc>>

OrderResponse(r, rs) == endpoint[r] = "create_order" /\ PassThrough(r, rs)

StatusResponse(r, rs) == endpoint[r] = "get_order" /\ PassThrough(r, rs)

-----------------------------------------------------------------------------
(* get_results, lines 94-158 *)

SharedPricing(r) ==
    LET ran == {q \in Requests : q # r /\ pc[q] = "done" /\ out[q].kind = "ok"
                                   /\ endpoint[q] = "get_results"}
    IN  IF ran = {} THEN pricing[r] ELSE pricing[CHOOSE q \in ran : TRUE]

(* lines 116-126: the dict literal, built anew by every call *)
PricingLiteral(r) == pricing[r]

(* lines 105-158 on the payload d: one run of the code, without           *)
(* suspension.  totals, p and c are bound as values, each computed once.   *)
Compute(r, d) ==
    /\ pc' = [pc EXCEPT ![r] = "done"]
    /\ IF ExtractionRaises(d)
       THEN /\ out' = [out EXCEPT ![r] =
                         HTTPException(500, <<"Internal Server Error">>)]
            /\ UNCHANGED <<pricing, calc>>
       ELSE \E totals \in {Totals(Gutter(d))} :
            \E p \in {Bumped(PricingLiteral(r), totals)} :
            \E c \in {Locals(totals, p)} :
                /\ pricing' = [pricing EXCEPT ![r] = p]
                /\ calc' = [calc EXCEPT ![r] = Kept(c)]
                /\ out' = [out EXCEPT ![r] = Answer(Estimate(totals, c, p))]

NotReadyDetailFromBody(rs) == <<rs.text>>

(* line 100 *)
NotReadyDetail(rs) == <<"Results not ready yet">>

ResultsResponse(r, rs) ==
    /\ pc[r] = "await_api"
    /\ endpoint[r] = "get_results"
    /\ resp' = [resp EXCEPT ![r] = rs]
    /\ IF rs.status = 404
       THEN /\ out' = [out EXCEPT ![r] = HTTPException(404, NotReadyDetail(rs))]
            /\ pc' = [pc EXCEPT ![r] = "done"]
            /\ UNCHANGED <<pricing, calc>>
       ELSE IF rs.status >= 400
       THEN /\ out' = [out EXCEPT ![r] = HTTPException(rs.status, <<rs.text>>)]
            /\ pc' = [pc EXCEPT ![r] = "done"]
            /\ UNCHANGED <<pricing, calc>>
       ELSE Compute(r, rs.json)
    /\ UNCHANGED <<token_cache, creds_set, endpoint, token>>

(* lines 105-158 applied to a payload already at hand *)
EstimateNow(r) ==
    /\ pc[r] = "have_data"
    /\ Compute(r, resp[r].json)
    /\ UNCHANGED <<token_cache, creds_set, endpoint, token, resp>>

-----------------------------------------------------------------------------
(* The service: requests arrive, the provider answers in any order *)

Endpoints == {"create_order", "get_order", "get_results"}

Init ==
    /\ token_cache = Null
    /\ creds_set \in BOOLEAN
    /\ pc = [r \in Requests |-> "idle"]
    /\ endpoint = [r \in Requests |-> "none"]
    /\ token = [r \in Requests |-> Absent]
    /\ resp = [r \in Requests |-> NoResponse]
    /\ pricing = [r \in Requests |-> DefaultPricing]
    /\ calc = [r \in Requests |-> NoLocals]
    /\ out = [r \in Requests |-> NoAnswer]

Next ==
    \E r \in Requests :
        \/ \E e \in Endpoints : Start(r, e)
        \/ \E rs \in ErrorResponses \cup AuthOk : AuthResponse(r, rs)
        \/ \E rs \in ErrorResponses \cup {OkResponse(OrderJson)} : OrderResponse(r, rs)
        \/ \E rs \in ErrorResponses \cup {OkResponse(OrderJson)} : StatusResponse(r, rs)
        \/ \E rs \in ErrorResponses \cup {OkResponse(d) : d \in ProviderPayloads} :
               ResultsResponse(r, rs)

Spec == Init /\ [][Next]_vars

-----------------------------------------------------------------------------
(* The extraction and pricing code alone, on payloads already received:    *)
(* requests 1 and 2 hold a 2xx results response, nothing else runs.        *)

Received(d1, d2) ==
    [r \in Requests |-> IF r = 1 THEN OkResponse(d1)
                        ELSE IF r = 2 THEN OkResponse(d2) ELSE NoResponse]

InitReceived ==
    /\ token_cache = Str("tok_a")
    /\ creds_set = TRUE
    /\ pc = [r \in Requests |-> IF r \in {1, 2} THEN "have_data" ELSE "idle"]
    /\ endpoint = [r \in Requests |-> IF r \in {1, 2} THEN "get_results" ELSE "none"]
    /\ token = [r \in Requests |-> IF r \in {1, 2} THEN Str("tok_a") ELSE Absent]
    /\ calc = [r \in Requests |-> NoLocals]
    /\ out = [r \in Requests |-> NoAnswer]

NextReceived == \E r \in Requests : EstimateNow(r)

(* a payload with the null at each key of the documented shape taken out: *)
(* the key is absent instead.  The story counts inside storiesByDirection  *)
(* are values of the mapping, not keys of the shape, and stay as they are. *)
RECURSIVE WithoutNulls(_)
WithoutNulls(x) ==
    IF x.t = "null" THEN Absent
    ELSE IF x.t # "obj" THEN x
    ELSE Obj([k \in DOMAIN x.f |->
                IF k = "storiesByDirection" THEN x.f[k] ELSE WithoutNulls(x.f[k])])

Optional(S) == {Absent, Null} \cup S

StoryValues == Optional({Num(i) : i \in 0..MaxStories})
StoryMaps == {Obj([N |-> a, S |-> b]) : a, b \in StoryValues}
MiterMaps == {Obj([inside90 |-> a, outside90 |-> b]) : a, b \in Optional({Num(MaxCount)})}
AssetMaps == {Obj([pdfUrl |-> u]) : u \in Optional({Str("https://pdf")})}

GutterReports ==
    {Obj([totalEaveLengthFt |-> e, estimatedDownspouts |-> ds, miterCount |-> m,
          storiesByDirection |-> st, assets |-> a]) :
        e \in Optional({Num(MaxEave)}), ds \in Optional({Num(MaxCount)}),
        m \in Optional(MiterMaps), st \in Optional(StoryMaps), a \in Optional(AssetMaps)}

(* the payloads of the documented shape, every key absent, null or set *)
ShapedPayloads == {Obj([gutterReport |-> g]) : g \in Optional(GutterReports)}

(* request 1 holds any payload of the documented shape, request 2 the same *)
(* payload with its nulls taken out; both are priced with the literal      *)
InitPayload ==
    /\ InitReceived
    /\ \E d \in ShapedPayloads : resp = Received(d, WithoutNulls(d))
    /\ pricing = [r \in Requests |-> DefaultPricing]

SpecPayload == InitPayload /\ [][NextReceived]_vars

(* pricing dicts other than the literal: other labor, pitch and tax rates *)
LaborChoices ==
    {[labor_per_ft |-> Cents(500), pitch_multiplier |-> Cents(110)],
     [labor_per_ft |-> Cents(625), pitch_multiplier |-> Cents(110)],
     [labor_per_ft |-> Cents(500), pitch_multiplier |-> Cents(125)]}

PricingConfigs ==
    {[DefaultPricing EXCEPT !.labor_per_ft = l.labor_per_ft,
                            !.pitch_multiplier = l.pitch_multiplier,
                            !.sales_tax_pct = t] :
        l \in LaborChoices, t \in {Cents(0), Cents(7)}}

StoryChoices == {Absent, Obj([N |-> Num(1), S |-> Num(2)])}

(* requests 1 and 2 hold the same measurements, each with its own stories  *)
(* and its own pricing dict                                                *)
InitPricing ==
    /\ InitReceived
    /\ \E e \in 0..MaxEave, ds \in 0..MaxCount, mi \in 0..MaxCount, mo \in 0..MaxCount :
         \E s1 \in StoryChoices, s2 \in StoryChoices :
            resp = Received(Payload(Num(e), Num(ds), Num(mi), Num(mo), s1, Absent),
                            Payload(Num(e), Num(ds), Num(mi), Num(mo), s2, Absent))
    /\ \E p1 \in PricingConfigs, p2 \in PricingConfigs :
         pricing = [r \in Requests |-> IF r = 1 THEN p1 ELSE IF r = 2 THEN p2
                                                         ELSE DefaultPricing]

SpecPricing == InitPricing /\ [][NextReceived]_vars

-----------------------------------------------------------------------------
(* What the properties below read off a state *)

Done(r) == pc[r] = "done"

(* request r answered with an estimate *)
Estimated(r) == Done(r) /\ endpoint[r] = "get_results" /\ out[r].kind = "ok"

Inputs(r) == out[r].body.inputs
Line(r, i) == out[r].body.line_items[i]
Reported(r) == out[r].body.totals

RECURSIVE SumAmounts(_, _)
SumAmounts(lines, k) == IF k = 0 THEN 0 ELSE lines[k].amount + SumAmounts(lines, k - 1)

Dist(a, b) == IF a < b THEN b - a ELSE a - b

GutterOf(r) == resp[r].json.f.gutterReport

Missing(x) == x.t \in {"absent", "null"}

(* key k of the gutter report of r's payload is absent or null, or the     *)
(* report itself is                                                        *)
MissingIn(r, k) == Missing(GutterOf(r)) \/ Missing(GutterOf(r).f[k])

MissingUnder(r, k, j) == MissingIn(r, k) \/ Missing(GutterOf(r).f[k].f[j])

DefaultRecord ==
    [eave_linear_ft |-> Num(0), downspouts |-> Num(0), miters_inside |-> Num(0),
     miters_outside |-> Num(0), stories_by_direction |-> EmptyStories, pdf_url |-> Null]

(* some side of r's extracted record has 2 or more stories *)
SomeSideTwoPlus(r) ==
    \E k \in {"N", "S"} :
        LET v == Inputs(r).stories_by_direction.f[k]
        IN  v.t = "num" /\ v.v >= 2

-----------------------------------------------------------------------------
(* C1: extraction never fails; a payload whose gutterReport is absent,     *)
(* null or empty gives the all-default record; a null anywhere in the      *)
(* documented shape is treated as the key being absent (request 2 holds    *)
(* request 1's payload with its nulls taken out), and the field a missing  *)
(* key feeds takes its default.                                            *)
C1_NullIsAbsent ==
    /\ \A r \in {1, 2} : Done(r) => out[r].kind = "ok"
    /\ (Done(1) /\ Done(2) /\ resp[2].json = WithoutNulls(resp[1].json))
          => Inputs(1) = Inputs(2)
    /\ \A r \in {1, 2} : Done(r) =>
          /\ (Missing(GutterOf(r)) \/ GutterOf(r) = EmptyGutter)
                => Inputs(r) = DefaultRecord
          /\ MissingIn(r, "totalEaveLengthFt") => Inputs(r).eave_linear_ft = Num(0)
          /\ MissingIn(r, "estimatedDownspouts") => Inputs(r).downspouts = Num(0)
          /\ MissingUnder(r, "miterCount", "inside90") => Inputs(r).miters_inside = Num(0)
          /\ MissingUnder(r, "miterCount", "outside90") => Inputs(r).miters_outside = Num(0)
          /\ MissingIn(r, "storiesByDirection")
                => Inputs(r).stories_by_direction = EmptyStories
          /\ MissingUnder(r, "assets", "pdfUrl") => Inputs(r).pdf_url = Null

C1_Witness ==
    /\ Done(1) /\ Done(2)
    /\ GutterOf(1) = Null
    /\ GutterOf(2) = Absent
    /\ out[1].kind = "ok"
    /\ Inputs(1) = DefaultRecord

(* C2: the labor amount is eave * labor_per_ft * pitch_multiplier * m,     *)
(* with m = 1.10 exactly when some side has 2 or more stories (a null or   *)
(* zero count counting as 1) and m = 1.00 otherwise, the empty mapping     *)
(* included.                                                               *)
C2_StoryMultiplierRule ==
    \A r \in Requests : Estimated(r) =>
        LET m == IF SomeSideTwoPlus(r) THEN Cents(110) ELSE Cents(100)
            eave_ft == Tenths(Inputs(r).eave_linear_ft.v)
        IN  /\ pricing[r].story_multiplier = m
            /\ Line(r, 2).amount =
                 Round2(RMul(RMul(RMul(eave_ft, DefaultPricing.labor_per_ft),
                                  DefaultPricing.pitch_multiplier), m))

C2_Witness ==
    /\ Estimated(1)
    /\ Inputs(1).stories_by_direction = Obj([N |-> Null, S |-> Num(2)])
    /\ Inputs(1).eave_linear_ft = Num(MaxEave)
    /\ pricing[1].story_multiplier = Cents(110)
    /\ Line(1, 2).amount >
          Round2(RMul(RMul(Tenths(MaxEave), DefaultPricing.labor_per_ft),
                      DefaultPricing.pitch_multiplier))

(* C3: the documented scenario (100 ft, 4 downspouts, 2 + 1 miters, N: 1,  *)
(* S: 2, the literal pricing) reports materials 850.00, labor 605.00,      *)
(* downspouts 340.00, miters (3) 36.00, overhead 219.72, profit 205.07,    *)
(* sales tax 0.00, subtotal 1831.00 and total 2255.79.                     *)
C3_Scenario ==
    \A r \in Requests : (Estimated(r) /\ resp[r].json = ScenarioPayload) =>
        /\ [i \in 1..7 |-> Line(r, i).amount]
             = <<85000, 60500, 34000, 3600, 21972, 20507, 0>>
        /\ Line(r, 3).label = <<"Downspouts (", 4, ")">>
        /\ Line(r, 4).label = <<"Miters (", 3, ")">>
        /\ Reported(r) = [subtotal |-> 183100, total |-> 225579]

C3_Witness == \E r \in Requests : Estimated(r) /\ resp[r].json = ScenarioPayload

(* C4: the sales tax is (base_mat + accessories) * sales_tax_pct, so two   *)
(* estimates that agree on the measurements, on price_per_ft,              *)
(* downspout_each, miter_each and on a nonzero sales_tax_pct report the    *)
(* same sales tax, whatever their labor_per_ft, pitch_multiplier and story *)
(* multiplier.                                                             *)
C4_TaxExcludesLabor ==
    /\ ( /\ Estimated(1) /\ Estimated(2)
         /\ \A k \in {"eave_linear_ft", "downspouts", "miters_inside", "miters_outside"} :
               Inputs(1)[k] = Inputs(2)[k]
         /\ \A k \in {"price_per_ft", "downspout_each", "miter_each", "sales_tax_pct"} :
               pricing[1][k] = pricing[2][k]
         /\ pricing[1].sales_tax_pct # Zero )
       => Line(1, 7).amount = Line(2, 7).amount
    /\ \A r \in Requests : Estimated(r) =>
         LET p == pricing[r]
             mat == RMul(Tenths(Inputs(r).eave_linear_ft.v), p.price_per_ft)
             acc == RAdd(RMul(FromInt(Inputs(r).downspouts.v), p.downspout_each),
                         RMul(FromInt(Inputs(r).miters_inside.v + Inputs(r).miters_outside.v),
                              p.miter_each))
         IN  Line(r, 7).amount = Round2(RMul(RAdd(mat, acc), p.sales_tax_pct))

C4_Witness ==
    /\ Estimated(1) /\ Estimated(2)
    /\ pricing[1].sales_tax_pct = Cents(7)
    /\ pricing[2].sales_tax_pct = Cents(7)
    /\ pricing[1].labor_per_ft # pricing[2].labor_per_ft
    /\ Line(1, 2).amount # Line(2, 2).amount
    /\ Line(1, 7).amount > 0

(* C5: subtotal <= pre_profit <= total, and the reported subtotal is never *)
(* greater than the reported total.                                        *)
C5_SubtotalLePreProfitLeTotal ==
    \A r \in Requests : Estimated(r) =>
        /\ RLe(calc[r].subtotal, calc[r].pre_profit)
        /\ RLe(calc[r].pre_profit, calc[r].total)
        /\ Reported(r).subtotal <= Reported(r).total

C5_Witness ==
    /\ Estimated(1)
    /\ Inputs(1).eave_linear_ft = Num(MaxEave)
    /\ pricing[1].sales_tax_pct = Cents(7)
    /\ Reported(1).subtotal < Reported(1).total

(* C6: the answer depends on the payload alone: two estimates of one       *)
(* payload are identical, and an estimate of a payload whose sides are all *)
(* below 2 stories is priced with story multiplier 1.00, whatever other    *)
(* requests were priced before it or meanwhile.                            *)
C6_Stateless ==
    /\ \A r1, r2 \in Requests :
          (Estimated(r1) /\ Estimated(r2) /\ resp[r1].json = resp[r2].json)
             => out[r1] = out[r2]
    /\ \A r \in Requests : (Estimated(r) /\ ~SomeSideTwoPlus(r)) =>
          /\ pricing[r].story_multiplier = Cents(100)
          /\ Line(r, 2).amount =
               Round2(RMul(RMul(Tenths(Inputs(r).eave_linear_ft.v), Cents(500)), Cents(110)))

C6_Witness ==
    \E r1, r2 \in Requests :
        /\ Estimated(r1) /\ Estimated(r2)
        /\ resp[r1].json = ScenarioPayload
        /\ pricing[r1].story_multiplier = Cents(110)
        /\ resp[r2].json = OneStoryPayload
        /\ Line(r2, 2).amount = 55000

(* C7: an estimate has exactly seven line items, in the order materials,   *)
(* labor, downspouts, miters, overhead, profit, sales tax; the all-zero    *)
(* record gives seven lines of amount 0.00 and a total of 0.00.            *)
C7_SevenLines ==
    \A r \in Requests : Estimated(r) =>
        /\ Len(out[r].body.line_items) = 7
        /\ [i \in 1..7 |-> Line(r, i).label[1]]
             = <<"Gutter materials", "Labor", "Downspouts (", "Miters (",
                 "Overhead", "Profit", "Sales tax">>
        /\ (\A k \in {"eave_linear_ft", "downspouts", "miters_inside", "miters_outside"} :
               Inputs(r)[k] = Num(0))
             => /\ \A i \in 1..7 : Line(r, i).amount = 0
                /\ Reported(r) = [subtotal |-> 0, total |-> 0]

C7_Witness ==
    /\ Estimated(1)
    /\ \A k \in {"eave_linear_ft", "downspouts", "miters_inside", "miters_outside"} :
          Inputs(1)[k] = Num(0)
    /\ Len(out[1].body.line_items) = 7
    /\ Reported(1).total = 0

(* C8 as stated: whenever the provider answers a request with a status    *)
(* >= 400, the endpoint fails with that status and its detail carries the  *)
(* provider's response body.                                               *)
C8_ProviderBodyReported ==
    \A r \in Requests : (Done(r) /\ resp[r].status >= 400) =>
        /\ out[r].kind = "error"
        /\ out[r].status = resp[r].status
        /\ \E i \in DOMAIN out[r].detail : out[r].detail[i] = resp[r].text

(* C8, amended: whenever the provider answers a request with a status      *)
(* >= 400, the endpoint fails with that status and no estimate is          *)
(* computed; the detail is the provider's body for the order, status and   *)
(* results requests, except that a 404 on the results request gives the    *)
(* fixed text "Results not ready yet", and for the auth request it is the  *)
(* body after the prefix "Auth failed: ".                                  *)
C8_FailureReported ==
    \A r \in Requests : (Done(r) /\ resp[r].status >= 400) =>
        /\ out[r].kind = "error"
        /\ out[r].status = resp[r].status
        /\ out[r].detail =
              IF token[r] = Absent THEN <<"Auth failed: ", resp[r].text>>
              ELSE IF endpoint[r] = "get_results" /\ resp[r].status = 404
                   THEN <<"Results not ready yet">>
              ELSE <<resp[r].text>>
        /\ calc[r] = NoLocals
        /\ pricing[r] = DefaultPricing

C8_Witness ==
    \E r1, r2 \in Requests :
        /\ Done(r1) /\ endpoint[r1] = "get_results" /\ token[r1] # Absent
        /\ resp[r1].status = 404
        /\ out[r1] = HTTPException(404, <<"Results not ready yet">>)
        /\ Done(r2) /\ token[r2] = Absent
        /\ resp[r2].status = 500
        /\ out[r2].kind = "error"

(* C9: a get_token call that starts while the cache holds a token returns  *)
(* that token and sends no auth request; a call that receives a 2xx auth   *)
(* response does not fail, stores the response's access_token and returns  *)
(* it, whatever other calls stored meanwhile; the cache only ever changes  *)
(* to the token one of the calls in flight has just received.              *)
C9_TokenRace ==
    [][\A r \in Requests :
          /\ (pc[r] = "idle" /\ pc'[r] # "idle" /\ ~Falsy(token_cache))
                => /\ pc'[r] = "await_api"
                   /\ token'[r] = token_cache
                   /\ token_cache' = token_cache
          /\ (pc[r] = "await_auth" /\ pc'[r] # "await_auth" /\ resp'[r].status < 400)
                => /\ pc'[r] = "await_api"
                   /\ out'[r] = NoAnswer
                   /\ token'[r] = Get(resp'[r].json, "access_token", Null)
                   /\ token_cache' = token'[r]
          /\ token_cache' # token_cache
                => \E q \in Requests :
                      /\ pc[q] = "await_auth" /\ pc'[q] = "await_api"
                      /\ token_cache' = token'[q]
      ]_vars

(* two calls found the cache empty and both sent an auth request: one has  *)
(* stored and returned its token, the other's request is still in flight   *)
C9_Witness ==
    \E r1, r2 \in Requests :
        /\ r1 # r2
        /\ pc[r1] = "await_auth"
        /\ pc[r2] = "await_api"
        /\ token[r2] = Str("tok_b")
        /\ token_cache = token[r2]

(* C10 as stated, for the estimates priced with the literal dict of the   *)
(* code: the reported subtotal is the sum of the reported amounts of the   *)
(* first four lines, and the reported total the sum of all seven.  (With   *)
(* the literal rates and no story bump no amount lies halfway between two  *)
(* cents, so exact and float rounding agree on every amount compared.)     *)
C10_SumsAgree ==
    \A r \in Requests : (Estimated(r) /\ pricing[r] = DefaultPricing) =>
        /\ Reported(r).subtotal = SumAmounts(out[r].body.line_items, 4)
        /\ Reported(r).total = SumAmounts(out[r].body.line_items, 7)

(* C10, amended: each reported value is the 2-decimal rounding of its own  *)
(* unrounded value, so the reported subtotal is within 0.02 of the sum of  *)
(* the reported amounts of the first four lines, and the reported total    *)
(* within 0.04 of the sum of all seven.                                    *)
C10_SumsWithinCents ==
    \A r \in Requests : Estimated(r) =>
        /\ Reported(r).subtotal = Round2(calc[r].subtotal)
        /\ Reported(r).total = Round2(calc[r].total)
        /\ Dist(Reported(r).subtotal, SumAmounts(out[r].body.line_items, 4)) <= 2
        /\ Dist(Reported(r).total, SumAmounts(out[r].body.line_items, 7)) <= 4

C10_Witness ==
    /\ Estimated(1)
    /\ pricing[1] = DefaultPricing
    /\ Inputs(1).eave_linear_ft = Num(1)
    /\ Reported(1).total = 172
    /\ SumAmounts(out[1].body.line_items, 7) = 173

=============================================================================
